---- MODULE Spec2Model ----
(***************************************************************************)
(* Model of package fcrand (src/fcrand.go): Read, the cache struct and the *)
(* sync.Pool of caches, with callers running Read concurrently.            *)
(*                                                                         *)
(* A byte produced by the secure source is identified by the tag          *)
(* <<src, p>>: the p-th byte of the call src of crypto/rand.Read, a call   *)
(* being named by the Read that made it.  A run of tags is a record        *)
(* [src, lo, hi] (positions lo..hi-1).  src = NoSrc is a byte no source    *)
(* call wrote (the zero bytes of make([]byte, ...)).                       *)
(***************************************************************************)
EXTENDS Integers, Naturals, Sequences, FiniteSets, TLC

\* ---- program constants (src/fcrand.go:24-33) ----
lbBlockByteSize == 8
lbBlockCount == 512
lbByteSize == lbBlockByteSize * lbBlockCount
sbByteSize == 1024
maxBytesToFillViaCache == 512
sbCutoff == 32

\* ---- bounds of the model ----
NumCallers == 2
ExtraCaches == 1
MaxReads == 2
MaxSeqReads == 34
MaxMixReads == 9

Callers == 1..NumCallers
MaxCaches == NumCallers + ExtraCaches
CacheIds == 1..MaxCaches
NoCache == 0
\* the source of a byte that no call of crypto/rand.Read wrote
NoSrc == <<0, 0>>

\* request sizes of the concurrent workload: both sides of every branch of Read
Sizes == {0, 7, 33, 512, 513}
\* request-size sets of the sequential workloads with sizes mixed
MixedSizeSets == {{1, 31}, {7, 512}, {33, 512}, {32, 504}}

Min(x, y) == IF x < y THEN x ELSE y
Max(x, y) == IF x > y THEN x ELSE y

VARIABLES
  caches,    \* the cache objects in existence: id -> [lb, sb, lbCount, sbCount]
  pool,      \* ids of the caches cachePool holds (available to Get)
  pc,        \* per caller: position in Read
  n,         \* per caller: Read's n
  cachePtr,  \* per caller: Read's cachePtr
  b,         \* per caller: the caller's buffer b: [len, data]
  ret,       \* per caller: what the last Read returned: [n, err]
  srcCalls,  \* number of calls of crypto/rand.Read made so far
  srcN,      \* per caller: calls of crypto/rand.Read made by its current Read
  srcRes,    \* per caller: result [n, err] of its last crypto/rand.Read call
  reads,     \* number of Read calls started so far
  rdId,      \* per caller: number of Read calls it has made
  workload,  \* what the callers do: [sizes, reads, callers]
  outer,     \* per caller: the frames of reader.Read and Text above Read
  delivered, \* history: runs of tags copied into callers' buffers, per Read
  hist       \* history per cache: positions copied out since the last refill

cacheVars == <<caches, pool>>
callVars == <<pc, n, cachePtr, b, ret, rdId>>
srcVars == <<srcCalls, srcN, srcRes>>
vars == <<caches, pool, pc, n, cachePtr, b, ret, srcCalls, srcN, srcRes,
          reads, rdId, workload, outer, delivered, hist>>

\* ---- byte slices ----
\* A buffer of size C is a sequence of layers [src, len], latest write first
\* and len strictly increasing: layer i holds positions [len of layer i-1, len)
\* and positions from the last len up to C were never written.
Seg(src, lo, hi) == IF lo < hi THEN <<[src |-> src, lo |-> lo, hi |-> hi]>> ELSE <<>>

RECURSIVE SliceFrom(_, _, _, _, _)
SliceFrom(buf, C, start, lo, hi) ==
  IF buf = <<>>
  THEN Seg(NoSrc, Max(start, lo), Min(C, hi))
  ELSE Seg(Head(buf).src, Max(start, lo), Min(Head(buf).len, hi))
       \o SliceFrom(Tail(buf), C, Head(buf).len, lo, hi)

\* buf[lo:hi] as runs of tags
Slice(buf, C, lo, hi) == SliceFrom(buf, C, 0, lo, hi)

RECURSIVE RunsLen(_)
RunsLen(runs) ==
  IF runs = <<>> THEN 0 ELSE (Head(runs).hi - Head(runs).lo) + RunsLen(Tail(runs))

\* crypto/rand.Read(buf) as the call id, having written k bytes: buf[0:k]
\* are overwritten with the tags <<id, 0>> .. <<id, k-1>>
SrcWrite(buf, id, k) ==
  IF k = 0 THEN buf
  ELSE <<[src |-> id, len |-> k]>> \o SelectSeq(buf, LAMBDA l : l.len > k)

\* ---- the cache struct and cachePool.New ----
\* mutant: New returning a cache whose counts say the buffers are full
NewCacheFull == [lb |-> <<>>, sb |-> <<>>, lbCount |-> lbByteSize, sbCount |-> sbByteSize]

NewCache == [lb |-> <<>>, sb |-> <<>>, lbCount |-> 0, sbCount |-> 0]
NewHist == [lbTaken |-> <<>>, sbTaken |-> <<>>, refills |-> 0, served |-> 0]

live == DOMAIN caches
Extend(f, k, v) == [x \in (DOMAIN f) \cup {k} |-> IF x = k THEN v ELSE f[x]]
Remove(f, k) == [x \in (DOMAIN f) \ {k} |-> f[x]]

\* mutant: the block mask without the ceiling, n &^ (lbBlockByteSize - 1)
lbBytesConsumedDown(len) == len - (len % lbBlockByteSize)

\* mutant: no rounding, lbCount -= n
lbBytesConsumedExact(len) == len

\* mutant: ceiling off by one, (n + lbBlockByteSize) &^ (lbBlockByteSize - 1)
lbBytesConsumedOver(len) == (len + lbBlockByteSize) - ((len + lbBlockByteSize) % lbBlockByteSize)

\* lbBytesConsumed := (n + lbBlockByteSize - 1) &^ (lbBlockByteSize - 1)
lbBytesConsumed(len) ==
  (len + lbBlockByteSize - 1) - ((len + lbBlockByteSize - 1) % lbBlockByteSize)

\* the runs of one Read, as delivery records
Deliveries(rd, runs) ==
  {[rd |-> rd, src |-> runs[i].src, lo |-> runs[i].lo, hi |-> runs[i].hi] :
     i \in 1..Len(runs)}

\* the Read call caller c is in (or was last in)
ThisRead(c) == <<c, rdId[c]>>

EmptyBuf(len) == [len |-> len, data |-> <<>>]
NoRet == [n |-> -1, err |-> FALSE]

\* no frame above Read: rpc and tpc are the positions in reader.Read and in
\* Text, rlen and rret the argument length and the result of reader.Read,
\* vals the byte values the source produces for Text, src Text's slice, i its
\* loop index and str its result
NoOuter == [rpc |-> "none", rlen |-> 0, rret |-> NoRet, tpc |-> "none",
            vals |-> <<>>, src |-> <<>>, i |-> 0, str |-> <<>>]

\* ---- initial states ----
InitState(w) ==
  /\ caches = << >>
  /\ pool = {}
  /\ pc = [c \in Callers |-> "idle"]
  /\ n = [c \in Callers |-> 0]
  /\ cachePtr = [c \in Callers |-> NoCache]
  /\ b = [c \in Callers |-> EmptyBuf(0)]
  /\ ret = [c \in Callers |-> NoRet]
  /\ srcCalls = 0
  /\ srcN = [c \in Callers |-> 0]
  /\ srcRes = [c \in Callers |-> NoRet]
  /\ reads = 0
  /\ rdId = [c \in Callers |-> 0]
  /\ workload = w
  /\ outer = [c \in Callers |-> NoOuter]
  /\ delivered = {}
  /\ hist = << >>

\* concurrent callers, a few Reads, sizes on both sides of every branch
Init == InitState([sizes |-> Sizes, reads |-> MaxReads, callers |-> Callers])

\* the workload of the runs with a failing source: the empty buffer, a
\* small-buffer size, the largest cached size and the smallest bypassing size
ErrSizes == {0, 7, maxBytesToFillViaCache, maxBytesToFillViaCache + 1}
InitErr == InitState([sizes |-> ErrSizes, reads |-> MaxReads, callers |-> Callers])

\* the workload of the runs under fairness: one size for each path of Read
FairSizes == {0, 7, 33, maxBytesToFillViaCache + 1}
InitFair == InitState([sizes |-> FairSizes, reads |-> MaxReads, callers |-> Callers])

\* one caller calling Read in sequence: every size of 0..513 on its own,
\* long enough to use a buffer up, and a few mixes of sizes
SeqWorkloads ==
  {[sizes |-> {len}, reads |-> MaxSeqReads, callers |-> {1}] :
     len \in 0..(maxBytesToFillViaCache + 1)}
  \cup {[sizes |-> S, reads |-> MaxMixReads, callers |-> {1}] : S \in MixedSizeSets}

InitSeq == \E w \in SeqWorkloads : InitState(w)

\* ---- Read, one action per step ----
\* func Read(b []byte): n = len(b)
ReadEntry(c, len) ==
  /\ pc[c] = "idle"
  /\ reads' = reads + 1
  /\ rdId' = [rdId EXCEPT ![c] = @ + 1]
  /\ n' = [n EXCEPT ![c] = len]
  /\ b' = [b EXCEPT ![c] = EmptyBuf(len)]
  /\ ret' = [ret EXCEPT ![c] = NoRet]
  /\ srcN' = [srcN EXCEPT ![c] = 0]
  /\ srcRes' = [srcRes EXCEPT ![c] = NoRet]
  /\ cachePtr' = [cachePtr EXCEPT ![c] = NoCache]
  /\ pc' = [pc EXCEPT ![c] = "entry"]
  /\ UNCHANGED <<caches, pool, srcCalls, workload, delivered, hist>>

\* a caller of the package calls Read(b) with len(b) = len
Call(c, len) ==
  /\ outer[c] = NoOuter
  /\ c \in workload.callers
  /\ len \in workload.sizes
  /\ reads < workload.reads
  /\ ReadEntry(c, len)
  /\ UNCHANGED outer

\* if n == 0 { return 0, nil }
ReturnZero(c) ==
  /\ pc[c] = "entry"
  /\ n[c] = 0
  /\ ret' = [ret EXCEPT ![c] = [n |-> 0, err |-> FALSE]]
  /\ pc' = [pc EXCEPT ![c] = "idle"]
  /\ UNCHANGED <<caches, pool, n, cachePtr, b, srcCalls, srcN, srcRes, reads,
                 rdId, workload, outer, delivered, hist>>

\* mutant: the threshold test written n >= maxBytesToFillViaCache
BypassAtThreshold(c, k) ==
  /\ pc[c] = "entry"
  /\ n[c] # 0
  /\ n[c] >= maxBytesToFillViaCache
  /\ srcCalls' = srcCalls + 1
  /\ srcN' = [srcN EXCEPT ![c] = @ + 1]
  /\ srcRes' = [srcRes EXCEPT ![c] = [n |-> k, err |-> k < b[c].len]]
  /\ b' = [b EXCEPT ![c].data = Seg(ThisRead(c), 0, k)]
  /\ delivered' = delivered \cup Deliveries(ThisRead(c), Seg(ThisRead(c), 0, k))
  /\ ret' = [ret EXCEPT ![c] = [n |-> k, err |-> k < b[c].len]]
  /\ pc' = [pc EXCEPT ![c] = "idle"]
  /\ UNCHANGED <<caches, pool, n, cachePtr, reads, rdId, workload, outer, hist>>

\* if n > maxBytesToFillViaCache { return cryptoRand.Read(b) }
\* k bytes are written by the source; it reports an error iff k < len(b)
Bypass(c, k) ==
  /\ pc[c] = "entry"
  /\ n[c] # 0
  /\ n[c] > maxBytesToFillViaCache
  /\ srcCalls' = srcCalls + 1
  /\ srcN' = [srcN EXCEPT ![c] = @ + 1]
  /\ srcRes' = [srcRes EXCEPT ![c] = [n |-> k, err |-> k < b[c].len]]
  /\ b' = [b EXCEPT ![c].data = Seg(ThisRead(c), 0, k)]
  /\ delivered' = delivered \cup Deliveries(ThisRead(c), Seg(ThisRead(c), 0, k))
  /\ ret' = [ret EXCEPT ![c] = [n |-> k, err |-> k < b[c].len]]
  /\ pc' = [pc EXCEPT ![c] = "idle"]
  /\ UNCHANGED <<caches, pool, n, cachePtr, reads, rdId, workload, outer, hist>>

\* mutant: Get hands the cache out and leaves it in the pool
GetFromShared(c, k) ==
  /\ pc[c] = "entry"
  /\ n[c] # 0
  /\ ~(n[c] > maxBytesToFillViaCache)
  /\ k \in pool
  /\ cachePtr' = [cachePtr EXCEPT ![c] = k]
  /\ hist' = [hist EXCEPT ![k].served = @ + 1]
  /\ pc' = [pc EXCEPT ![c] = "route"]
  /\ UNCHANGED <<caches, pool, n, b, ret, srcCalls, srcN, srcRes, reads, rdId,
                 workload, outer, delivered>>

\* cachePtr := cachePool.Get().(*cache), Get handing out the pooled cache k.
\* sync.Pool.Get removes an arbitrary item from the pool and returns it.
GetFrom(c, k) ==
  /\ pc[c] = "entry"
  /\ n[c] # 0
  /\ ~(n[c] > maxBytesToFillViaCache)
  /\ k \in pool
  /\ pool' = pool \ {k}
  /\ cachePtr' = [cachePtr EXCEPT ![c] = k]
  /\ hist' = [hist EXCEPT ![k].served = @ + 1]
  /\ pc' = [pc EXCEPT ![c] = "route"]
  /\ UNCHANGED <<caches, n, b, ret, srcCalls, srcN, srcRes, reads, rdId,
                 workload, outer, delivered>>

\* mutant: Read without its n == 0 return, a zero-length Read reaching Get
GetNewAnyLen(c, k) ==
  /\ pc[c] = "entry"
  /\ ~(n[c] > maxBytesToFillViaCache)
  /\ k \in CacheIds \ live
  /\ \A j \in CacheIds \ live : k <= j
  /\ caches' = Extend(caches, k, NewCache)
  /\ hist' = Extend(hist, k, [NewHist EXCEPT !.served = 1])
  /\ cachePtr' = [cachePtr EXCEPT ![c] = k]
  /\ pc' = [pc EXCEPT ![c] = "route"]
  /\ UNCHANGED <<pool, n, b, ret, srcCalls, srcN, srcRes, reads, rdId,
                 workload, outer, delivered>>

\* mutant: a pool of one cache, Get constructing only when none exists
GetNewOnlyFirst(c, k) ==
  /\ pc[c] = "entry"
  /\ n[c] # 0
  /\ ~(n[c] > maxBytesToFillViaCache)
  /\ live = {}
  /\ k \in CacheIds \ live
  /\ \A j \in CacheIds \ live : k <= j
  /\ caches' = Extend(caches, k, NewCache)
  /\ hist' = Extend(hist, k, [NewHist EXCEPT !.served = 1])
  /\ cachePtr' = [cachePtr EXCEPT ![c] = k]
  /\ pc' = [pc EXCEPT ![c] = "route"]
  /\ UNCHANGED <<pool, n, b, ret, srcCalls, srcN, srcRes, reads, rdId,
                 workload, outer, delivered>>

\* cachePtr := cachePool.Get().(*cache), Get calling cachePool.New.
\* sync.Pool.Get may treat the pool as empty whatever it holds.
GetNew(c, k) ==
  /\ pc[c] = "entry"
  /\ n[c] # 0
  /\ ~(n[c] > maxBytesToFillViaCache)
  /\ k \in CacheIds \ live
  /\ \A j \in CacheIds \ live : k <= j
  /\ caches' = Extend(caches, k, NewCache)
  /\ hist' = Extend(hist, k, [NewHist EXCEPT !.served = 1])
  /\ cachePtr' = [cachePtr EXCEPT ![c] = k]
  /\ pc' = [pc EXCEPT ![c] = "route"]
  /\ UNCHANGED <<pool, n, b, ret, srcCalls, srcN, srcRes, reads, rdId,
                 workload, outer, delivered>>

\* mutant: the pool dropping a cache whether or not a Read has it checked out
DiscardAny(k) ==
  /\ k \in live
  /\ pool' = pool \ {k}
  /\ caches' = Remove(caches, k)
  /\ hist' = Remove(hist, k)
  /\ UNCHANGED <<pc, n, cachePtr, b, ret, srcCalls, srcN, srcRes, reads, rdId,
                 workload, outer, delivered>>

\* sync.Pool drops a pooled item (garbage collection)
Discard(k) ==
  /\ k \in pool
  /\ pool' = pool \ {k}
  /\ caches' = Remove(caches, k)
  /\ hist' = Remove(hist, k)
  /\ UNCHANGED <<pc, n, cachePtr, b, ret, srcCalls, srcN, srcRes, reads, rdId,
                 workload, outer, delivered>>

\* if n < sbCutoff { if n > cachePtr.sbCount { cryptoRand.Read(cachePtr.sb)
\* the source writes k bytes; its results are dropped
SbRefill(c, k) ==
  /\ pc[c] = "route"
  /\ n[c] < sbCutoff
  /\ n[c] > caches[cachePtr[c]].sbCount
  /\ srcCalls' = srcCalls + 1
  /\ srcN' = [srcN EXCEPT ![c] = @ + 1]
  /\ srcRes' = [srcRes EXCEPT ![c] = [n |-> k, err |-> k < sbByteSize]]
  /\ caches' = [caches EXCEPT ![cachePtr[c]].sb = SrcWrite(@, ThisRead(c), k)]
  /\ hist' = [hist EXCEPT ![cachePtr[c]] =
                IF k = sbByteSize
                THEN [@ EXCEPT !.sbTaken = <<>>, !.refills = @ + 1]
                ELSE @]
  /\ pc' = [pc EXCEPT ![c] = "sbSet"]
  /\ UNCHANGED <<pool, n, cachePtr, b, ret, reads, rdId, workload, outer, delivered>>

\* cachePtr.sbCount = sbByteSize
SbSet(c) ==
  /\ pc[c] = "sbSet"
  /\ caches' = [caches EXCEPT ![cachePtr[c]].sbCount = sbByteSize]
  /\ pc' = [pc EXCEPT ![c] = "sbCopy"]
  /\ UNCHANGED <<pool, n, cachePtr, b, ret, srcCalls, srcN, srcRes, reads, rdId,
                 workload, outer, delivered, hist>>

\* n < sbCutoff and not n > cachePtr.sbCount: no refill
SbHit(c) ==
  /\ pc[c] = "route"
  /\ n[c] < sbCutoff
  /\ ~(n[c] > caches[cachePtr[c]].sbCount)
  /\ pc' = [pc EXCEPT ![c] = "sbCopy"]
  /\ UNCHANGED <<caches, pool, n, cachePtr, b, ret, srcCalls, srcN, srcRes,
                 reads, rdId, workload, outer, delivered, hist>>

\* copy(b, cachePtr.sb[sbByteSize-cachePtr.sbCount:])
\* the slice expression panics when its low bound is outside 0..len(sb);
\* copy moves min(len(b), len(src)) bytes
SbCopy(c) ==
  /\ pc[c] = "sbCopy"
  /\ LET off == sbByteSize - caches[cachePtr[c]].sbCount
         m == Min(b[c].len, sbByteSize - off)
         runs == Slice(caches[cachePtr[c]].sb, sbByteSize, off, off + m)
     IN IF off < 0 \/ off > sbByteSize
        THEN /\ pc' = [pc EXCEPT ![c] = "panic"]
             /\ UNCHANGED <<b, delivered, hist>>
        ELSE /\ b' = [b EXCEPT ![c].data = runs]
             /\ delivered' = delivered \cup Deliveries(ThisRead(c), runs)
             /\ hist' = [hist EXCEPT ![cachePtr[c]].sbTaken =
                           Append(@, [lo |-> off, hi |-> off + m])]
             /\ pc' = [pc EXCEPT ![c] = "sbDec"]
  /\ UNCHANGED <<caches, pool, n, cachePtr, ret, srcCalls, srcN, srcRes, reads,
                 rdId, workload, outer>>

\* mutant: the count is not advanced after the copy
SbDecSkip(c) ==
  /\ pc[c] = "sbDec"
  /\ pc' = [pc EXCEPT ![c] = "put"]
  /\ UNCHANGED <<caches, pool, n, cachePtr, b, ret, srcCalls, srcN, srcRes,
                 reads, rdId, workload, outer, delivered, hist>>

\* mutant: the small buffer consumed in blocks, sbCount -= lbBytesConsumed
SbDecRounded(c) ==
  /\ pc[c] = "sbDec"
  /\ caches' = [caches EXCEPT ![cachePtr[c]].sbCount = @ - lbBytesConsumed(n[c])]
  /\ pc' = [pc EXCEPT ![c] = "put"]
  /\ UNCHANGED <<pool, n, cachePtr, b, ret, srcCalls, srcN, srcRes, reads, rdId,
                 workload, outer, delivered, hist>>

\* cachePtr.sbCount -= n
SbDec(c) ==
  /\ pc[c] = "sbDec"
  /\ caches' = [caches EXCEPT ![cachePtr[c]].sbCount = @ - n[c]]
  /\ pc' = [pc EXCEPT ![c] = "put"]
  /\ UNCHANGED <<pool, n, cachePtr, b, ret, srcCalls, srcN, srcRes, reads, rdId,
                 workload, outer, delivered, hist>>

\* mutant: the refill test as n >= cachePtr.lbCount
LbRefillAtEqual(c, k) ==
  /\ pc[c] = "route"
  /\ ~(n[c] < sbCutoff)
  /\ n[c] >= caches[cachePtr[c]].lbCount
  /\ srcCalls' = srcCalls + 1
  /\ srcN' = [srcN EXCEPT ![c] = @ + 1]
  /\ srcRes' = [srcRes EXCEPT ![c] = [n |-> k, err |-> k < lbByteSize]]
  /\ caches' = [caches EXCEPT ![cachePtr[c]].lb = SrcWrite(@, ThisRead(c), k)]
  /\ hist' = [hist EXCEPT ![cachePtr[c]] =
                IF k = lbByteSize
                THEN [@ EXCEPT !.lbTaken = <<>>, !.refills = @ + 1]
                ELSE @]
  /\ pc' = [pc EXCEPT ![c] = "lbSet"]
  /\ UNCHANGED <<pool, n, cachePtr, b, ret, reads, rdId, workload, outer, delivered>>

\* } else { if n > cachePtr.lbCount { cryptoRand.Read(cachePtr.lb)
LbRefill(c, k) ==
  /\ pc[c] = "route"
  /\ ~(n[c] < sbCutoff)
  /\ n[c] > caches[cachePtr[c]].lbCount
  /\ srcCalls' = srcCalls + 1
  /\ srcN' = [srcN EXCEPT ![c] = @ + 1]
  /\ srcRes' = [srcRes EXCEPT ![c] = [n |-> k, err |-> k < lbByteSize]]
  /\ caches' = [caches EXCEPT ![cachePtr[c]].lb = SrcWrite(@, ThisRead(c), k)]
  /\ hist' = [hist EXCEPT ![cachePtr[c]] =
                IF k = lbByteSize
                THEN [@ EXCEPT !.lbTaken = <<>>, !.refills = @ + 1]
                ELSE @]
  /\ pc' = [pc EXCEPT ![c] = "lbSet"]
  /\ UNCHANGED <<pool, n, cachePtr, b, ret, reads, rdId, workload, outer, delivered>>

\* mutant: the count is not reset after the refill
LbSetSkip(c) ==
  /\ pc[c] = "lbSet"
  /\ pc' = [pc EXCEPT ![c] = "lbCopy"]
  /\ UNCHANGED <<caches, pool, n, cachePtr, b, ret, srcCalls, srcN, srcRes,
                 reads, rdId, workload, outer, delivered, hist>>

\* cachePtr.lbCount = lbByteSize
LbSet(c) ==
  /\ pc[c] = "lbSet"
  /\ caches' = [caches EXCEPT ![cachePtr[c]].lbCount = lbByteSize]
  /\ pc' = [pc EXCEPT ![c] = "lbCopy"]
  /\ UNCHANGED <<pool, n, cachePtr, b, ret, srcCalls, srcN, srcRes, reads, rdId,
                 workload, outer, delivered, hist>>

\* not n < sbCutoff and not n > cachePtr.lbCount: no refill
LbHit(c) ==
  /\ pc[c] = "route"
  /\ ~(n[c] < sbCutoff)
  /\ ~(n[c] > caches[cachePtr[c]].lbCount)
  /\ pc' = [pc EXCEPT ![c] = "lbCopy"]
  /\ UNCHANGED <<caches, pool, n, cachePtr, b, ret, srcCalls, srcN, srcRes,
                 reads, rdId, workload, outer, delivered, hist>>

\* mutant: the copy taken from the start of the buffer, copy(b, cachePtr.lb)
LbCopyFromStart(c) ==
  /\ pc[c] = "lbCopy"
  /\ LET off == 0
         m == Min(b[c].len, lbByteSize - off)
         runs == Slice(caches[cachePtr[c]].lb, lbByteSize, off, off + m)
     IN /\ b' = [b EXCEPT ![c].data = runs]
        /\ delivered' = delivered \cup Deliveries(ThisRead(c), runs)
        /\ hist' = [hist EXCEPT ![cachePtr[c]].lbTaken =
                      Append(@, [lo |-> off, hi |-> off + m])]
        /\ pc' = [pc EXCEPT ![c] = "lbDec"]
  /\ UNCHANGED <<caches, pool, n, cachePtr, ret, srcCalls, srcN, srcRes, reads,
                 rdId, workload, outer>>

\* copy(b, cachePtr.lb[lbByteSize-cachePtr.lbCount:])
LbCopy(c) ==
  /\ pc[c] = "lbCopy"
  /\ LET off == lbByteSize - caches[cachePtr[c]].lbCount
         m == Min(b[c].len, lbByteSize - off)
         runs == Slice(caches[cachePtr[c]].lb, lbByteSize, off, off + m)
     IN IF off < 0 \/ off > lbByteSize
        THEN /\ pc' = [pc EXCEPT ![c] = "panic"]
             /\ UNCHANGED <<b, delivered, hist>>
        ELSE /\ b' = [b EXCEPT ![c].data = runs]
             /\ delivered' = delivered \cup Deliveries(ThisRead(c), runs)
             /\ hist' = [hist EXCEPT ![cachePtr[c]].lbTaken =
                           Append(@, [lo |-> off, hi |-> off + m])]
             /\ pc' = [pc EXCEPT ![c] = "lbDec"]
  /\ UNCHANGED <<caches, pool, n, cachePtr, ret, srcCalls, srcN, srcRes, reads,
                 rdId, workload, outer>>

\* mutant: the large-buffer Read charging the small buffer's count
LbDecFromSb(c) ==
  /\ pc[c] = "lbDec"
  /\ caches' = [caches EXCEPT ![cachePtr[c]].sbCount = @ - lbBytesConsumed(n[c])]
  /\ pc' = [pc EXCEPT ![c] = "put"]
  /\ UNCHANGED <<pool, n, cachePtr, b, ret, srcCalls, srcN, srcRes, reads, rdId,
                 workload, outer, delivered, hist>>

\* cachePtr.lbCount -= lbBytesConsumed
LbDec(c) ==
  /\ pc[c] = "lbDec"
  /\ caches' = [caches EXCEPT ![cachePtr[c]].lbCount = @ - lbBytesConsumed(n[c])]
  /\ pc' = [pc EXCEPT ![c] = "put"]
  /\ UNCHANGED <<pool, n, cachePtr, b, ret, srcCalls, srcN, srcRes, reads, rdId,
                 workload, outer, delivered, hist>>

\* mutant: Read returns without cachePool.Put
PutSkip(c) ==
  /\ pc[c] = "put"
  /\ pc' = [pc EXCEPT ![c] = "ret"]
  /\ UNCHANGED <<caches, pool, n, cachePtr, b, ret, srcCalls, srcN, srcRes,
                 reads, rdId, workload, outer, delivered, hist>>

\* cachePool.Put(cachePtr)
Put(c) ==
  /\ pc[c] = "put"
  /\ pool' = pool \cup {cachePtr[c]}
  /\ pc' = [pc EXCEPT ![c] = "ret"]
  /\ UNCHANGED <<caches, n, cachePtr, b, ret, srcCalls, srcN, srcRes, reads,
                 rdId, workload, outer, delivered, hist>>

\* return n, nil
Return(c) ==
  /\ pc[c] = "ret"
  /\ ret' = [ret EXCEPT ![c] = [n |-> n[c], err |-> FALSE]]
  /\ cachePtr' = [cachePtr EXCEPT ![c] = NoCache]
  /\ pc' = [pc EXCEPT ![c] = "idle"]
  /\ UNCHANGED <<caches, pool, n, b, srcCalls, srcN, srcRes, reads, rdId,
                 workload, outer, delivered, hist>>

\* ---- reader.Read and Text ----
\* mutant: reader.Read keeping only the error of Read, its n left at zero
ReaderReturnDropsN(c) ==
  /\ outer[c].rpc = "wait"
  /\ pc[c] = "idle"
  /\ outer' = [outer EXCEPT ![c].rpc = "done",
                            ![c].rret = [n |-> 0, err |-> ret[c].err]]
  /\ UNCHANGED <<caches, pool, pc, n, cachePtr, b, ret, srcCalls, srcN, srcRes,
                 reads, rdId, workload, delivered, hist>>

\* a caller of the package calls Reader.Read(b) with len(b) = len
ReaderCall(c, len) ==
  /\ pc[c] = "idle"
  /\ outer[c] = NoOuter
  /\ c \in workload.callers
  /\ len \in workload.sizes
  /\ reads < workload.reads
  /\ outer' = [outer EXCEPT ![c] = [NoOuter EXCEPT !.rpc = "call", !.rlen = len]]
  /\ UNCHANGED <<caches, pool, pc, n, cachePtr, b, ret, srcCalls, srcN, srcRes,
                 reads, rdId, workload, delivered, hist>>

\* func (r *reader) Read(b []byte) (n int, err error) { return Read(b) }:
\* the call of Read
ReaderInvoke(c) ==
  /\ outer[c].rpc = "call"
  /\ ReadEntry(c, outer[c].rlen)
  /\ outer' = [outer EXCEPT ![c].rpc = "wait"]

\* return Read(b): Read has returned and reader.Read returns its results
ReaderReturn(c) ==
  /\ outer[c].rpc = "wait"
  /\ pc[c] = "idle"
  /\ outer' = [outer EXCEPT ![c].rpc = "done", ![c].rret = ret[c]]
  /\ UNCHANGED <<caches, pool, pc, n, cachePtr, b, ret, srcCalls, srcN, srcRes,
                 reads, rdId, workload, delivered, hist>>

\* the caller of Reader.Read or of Text is done with the result
Forget(c) ==
  /\ outer[c].rpc = "done"
  /\ outer[c].tpc \in {"none", "done"}
  /\ outer' = [outer EXCEPT ![c] = NoOuter]
  /\ UNCHANGED <<caches, pool, pc, n, cachePtr, b, ret, srcCalls, srcN, srcRes,
                 reads, rdId, workload, delivered, hist>>

\* characters as their codes: 'A'..'Z' are 65..90 and '2'..'7' are 50..55
\* mutant: the digits of the alphabet starting at '1'
base32From1 == [j \in 1..32 |-> IF j <= 26 THEN 64 + j ELSE 48 + (j - 26)]

\* base32 = "ABCDEFGHIJKLMNOPQRSTUVWXYZ234567"
base32 == [j \in 1..32 |-> IF j <= 26 THEN 64 + j ELSE 49 + (j - 26)]

\* base32_256 = base32 + base32 + base32 + base32 + base32 + base32 + base32 + base32
base32_256 == base32 \o base32 \o base32 \o base32 \o base32 \o base32 \o base32 \o base32

textLength == 26

\* the byte values the source produces for one Text: v, v + st, v + 2 st, ...
ByteSteps == {0, 1, 37}
ByteFamily(v, st) == [j \in 1..textLength |-> (v + (j - 1) * st) % 256]

\* the source of the byte at position p (from 0) of a caller's buffer
RECURSIVE RunAt(_, _)
RunAt(runs, p) ==
  IF runs = <<>> THEN NoSrc
  ELSE IF p < Head(runs).hi - Head(runs).lo THEN Head(runs).src
  ELSE RunAt(Tail(runs), p - (Head(runs).hi - Head(runs).lo))

\* src := make([]byte, textLength); _reader.Read(src): the call of reader.Read
TextCall(c) ==
  /\ pc[c] = "idle"
  /\ outer[c] = NoOuter
  /\ c \in workload.callers
  /\ reads < workload.reads
  /\ outer' = [outer EXCEPT ![c] =
                 [NoOuter EXCEPT !.tpc = "read",
                                 !.src = [j \in 1..textLength |-> 0],
                                 !.rpc = "call", !.rlen = textLength]]
  /\ UNCHANGED <<caches, pool, pc, n, cachePtr, b, ret, srcCalls, srcN, srcRes,
                 reads, rdId, workload, delivered, hist>>

\* _reader.Read(src) has returned, its results dropped: src holds what Read
\* wrote, a source byte where Read copied one and the zero byte elsewhere.
\* vals are the values of the bytes the source produced.
TextRead(c, v, st) ==
  /\ outer[c].tpc = "read"
  /\ outer[c].rpc = "done"
  /\ outer' = [outer EXCEPT
       ![c].vals = ByteFamily(v, st),
       ![c].src = [j \in 1..textLength |->
                     IF RunAt(b[c].data, j - 1) # NoSrc THEN ByteFamily(v, st)[j] ELSE 0],
       ![c].rpc = "none",
       ![c].i = 0,
       ![c].tpc = "loop"]
  /\ UNCHANGED <<caches, pool, pc, n, cachePtr, b, ret, srcCalls, srcN, srcRes,
                 reads, rdId, workload, delivered, hist>>

\* for i := range src { src[i] = base32_256[src[i]] }, one iteration
TextMap(c) ==
  /\ outer[c].tpc = "loop"
  /\ outer[c].i < Len(outer[c].src)
  /\ outer' = [outer EXCEPT
       ![c].src[outer[c].i + 1] = base32_256[outer[c].src[outer[c].i + 1] + 1],
       ![c].i = @ + 1]
  /\ UNCHANGED <<caches, pool, pc, n, cachePtr, b, ret, srcCalls, srcN, srcRes,
                 reads, rdId, workload, delivered, hist>>

\* return unsafe.String(&src[0], textLength)
TextReturn(c) ==
  /\ outer[c].tpc = "loop"
  /\ ~(outer[c].i < Len(outer[c].src))
  /\ outer' = [outer EXCEPT ![c].str = SubSeq(outer[c].src, 1, textLength),
                            ![c].tpc = "done", ![c].rpc = "done"]
  /\ UNCHANGED <<caches, pool, pc, n, cachePtr, b, ret, srcCalls, srcN, srcRes,
                 reads, rdId, workload, delivered, hist>>

\* ---- next-state relations ----
\* the steps of Read that call neither the pool nor the source
ReadStep(c) ==
  \/ \E len \in workload.sizes : Call(c, len)
  \/ ReturnZero(c)
  \/ SbSet(c)
  \/ SbHit(c)
  \/ SbCopy(c)
  \/ SbDec(c)
  \/ LbSet(c)
  \/ LbHit(c)
  \/ LbCopy(c)
  \/ LbDec(c)
  \/ Put(c)
  \/ Return(c)

\* the calls of crypto/rand.Read, the source filling the whole slice
SrcStep(c) ==
  \/ Bypass(c, b[c].len)
  \/ SbRefill(c, sbByteSize)
  \/ LbRefill(c, lbByteSize)

\* sync.Pool: Get hands out any pooled cache or a new one, and the pool may
\* drop what it holds
Next ==
  \/ \E c \in Callers : ReadStep(c)
  \/ \E c \in Callers : SrcStep(c)
  \/ \E c \in Callers, k \in CacheIds : GetFrom(c, k)
  \/ \E c \in Callers, k \in CacheIds : GetNew(c, k)
  \/ \E k \in CacheIds : Discard(k)

Spec == Init /\ [][Next]_vars

\* the lengths a failing crypto/rand.Read may have written before its error
FailLens(size) == {0, size \div 2}

\* the calls of crypto/rand.Read, the source reporting an error
SrcFailStep(c) ==
  \/ \E k \in FailLens(b[c].len) : Bypass(c, k)
  \/ \E k \in FailLens(sbByteSize) : SbRefill(c, k)
  \/ \E k \in FailLens(lbByteSize) : LbRefill(c, k)

\* a secure source that can report a failure (crypto/rand.Read returning an
\* error, as its signature allows)
NextErr ==
  \/ Next
  \/ \E c \in Callers : SrcFailStep(c)

SpecErr == InitErr /\ [][NextErr]_vars

\* a goroutine inside Read keeps running: no step of Read blocks
Advance(c) ==
  /\ pc[c] # "idle"
  /\ \/ ReadStep(c)
     \/ SrcStep(c)
     \/ \E k \in CacheIds : GetFrom(c, k)
     \/ \E k \in CacheIds : GetNew(c, k)

SpecFair == InitFair /\ [][Next]_vars /\ \A c \in Callers : WF_vars(Advance(c))

\* mutant: Get constructing a cache whatever the pool holds
GetNewWhenBusy(c, k) ==
  GetNew(c, k)

\* cachePool.Get() finding the pool empty and calling cachePool.New
GetNewWhenEmpty(c, k) ==
  /\ pool = {}
  /\ GetNew(c, k)

\* a pool that keeps what it is given: Get constructs a cache only when the
\* pool holds none, and nothing is dropped
NextKeep ==
  \/ \E c \in Callers : ReadStep(c)
  \/ \E c \in Callers : SrcStep(c)
  \/ \E c \in Callers, k \in CacheIds : GetFrom(c, k)
  \/ \E c \in Callers, k \in CacheIds : GetNewWhenEmpty(c, k)

SpecSeq == InitSeq /\ [][NextKeep]_vars

\* concurrent callers on a pool that keeps what it is given
SpecKeep == Init /\ [][NextKeep]_vars

\* the steps of reader.Read and of its caller
ReaderStep(c) ==
  \/ \E len \in workload.sizes : ReaderCall(c, len)
  \/ ReaderInvoke(c)
  \/ ReaderReturn(c)
  \/ Forget(c)

\* the steps of Text
TextStep(c) ==
  \/ TextCall(c)
  \/ /\ outer[c].tpc = "read"
     /\ outer[c].rpc = "done"
     /\ \E v \in 0..255, st \in ByteSteps : TextRead(c, v, st)
  \/ TextMap(c)
  \/ TextReturn(c)

\* one caller using Read, Reader.Read and Text in turn
MaxOuterCalls == 2
OuterSizes == {0, 7, 33, maxBytesToFillViaCache + 1}
InitOuter ==
  InitState([sizes |-> OuterSizes, reads |-> MaxOuterCalls, callers |-> {1}])

NextOuter ==
  \/ NextKeep
  \/ \E c \in Callers : ReaderStep(c)
  \/ \E c \in Callers : TextStep(c)

SpecOuter == InitOuter /\ [][NextOuter]_vars

\* ---- properties ----
\* the positions at which Read uses the fields of *cachePtr
HeldPCs == {"route", "sbSet", "sbCopy", "sbDec", "lbSet", "lbCopy", "lbDec", "put"}
Holds(c, k) == pc[c] \in HeldPCs /\ cachePtr[c] = k
\* c's last Read has returned
Completed(c) == pc[c] = "idle" /\ rdId[c] # 0

Disjoint(r1, r2) == r1.hi <= r2.lo \/ r2.hi <= r1.lo
PairwiseDisjoint(rs) ==
  \A i \in 1..Len(rs), j \in 1..Len(rs) : i < j => Disjoint(rs[i], rs[j])
\* every range starts at or after the end of the one before it
Ascending(rs) == \A i \in 1..(Len(rs) - 1) : rs[i].hi <= rs[i + 1].lo

\* C1: between two refills of a buffer (lb or sb) of a cache, the position
\* ranges copied out by successive Reads are pairwise disjoint, and each
\* starts past the end of the one before: no position of [0, size - count)
\* is copied out again before the next refill.
C1_NoPositionTwicePerFill ==
  \A k \in live :
    /\ PairwiseDisjoint(hist[k].lbTaken) /\ Ascending(hist[k].lbTaken)
    /\ PairwiseDisjoint(hist[k].sbTaken) /\ Ascending(hist[k].sbTaken)

\* C1 witness: a large buffer in its second fill, two Reads copied out of it
C1_Witness ==
  \E k \in live : hist[k].refills >= 2 /\ Len(hist[k].lbTaken) >= 2

\* C2: with callers running Read concurrently, no tag of a byte the secure
\* source produced is delivered to two Read calls, whichever caches served them.
C2_NoTagTwice ==
  \A d1 \in delivered, d2 \in delivered :
    (d1.rd # d2.rd /\ d1.src = d2.src /\ d1.src # NoSrc) => Disjoint(d1, d2)

\* C2 witness: Reads of two different callers were served from the same fill
\* of a buffer
C2_Witness ==
  \E c1 \in Callers, c2 \in Callers, d1 \in delivered, d2 \in delivered :
    /\ c1 # c2 /\ d1.rd = ThisRead(c1) /\ d2.rd = ThisRead(c2)
    /\ d1.src = d2.src /\ d1.src # NoSrc

C3_Owned ==
  \A c \in Callers :
    pc[c] \in HeldPCs =>
      /\ cachePtr[c] \in live \ pool
      /\ \A c2 \in Callers \ {c} : ~Holds(c2, cachePtr[c])
C3_Touch ==
  \A k \in live :
    (k \in DOMAIN caches' /\ caches'[k] # caches[k]) =>
       \E c \in Callers : Holds(c, k) /\ k \notin pool /\ pc'[c] # pc[c]

\* C3: in every state each cache is held by at most one caller, the cache a
\* Read is using is checked out of the pool, and every change of a cache's
\* fields is made by the one Read that holds it, between its Get and its Put.
C3_ExclusiveOwnership == []C3_Owned /\ [][C3_Touch]_vars

\* C3 witness: two callers inside Read at once, each holding a cache
C3_Witness ==
  \E c1 \in Callers, c2 \in Callers :
    c1 # c2 /\ pc[c1] \in HeldPCs /\ pc[c2] \in HeldPCs

\* C4 as stated: for every cache not in use, each counter is within its
\* buffer's size and a multiple of the block size 8.
C4_Original ==
  \A k \in pool :
    /\ caches[k].lbCount \in 0..lbByteSize
    /\ caches[k].lbCount % lbBlockByteSize = 0
    /\ caches[k].sbCount \in 0..sbByteSize
    /\ caches[k].sbCount % lbBlockByteSize = 0

\* C4 amended: for every cache not in use, lbCount is within 0..4096 and a
\* multiple of 8, and sbCount is within 0..1024 (the small buffer is
\* consumed byte by byte, so sbCount is any value of that range).
C4_CountersInRange ==
  \A k \in pool :
    /\ caches[k].lbCount \in 0..lbByteSize
    /\ caches[k].lbCount % lbBlockByteSize = 0
    /\ caches[k].sbCount \in 0..sbByteSize

\* C4 witness: a pooled cache whose large buffer served a size that is not a
\* multiple of 8
C4_Witness ==
  \E k \in pool, c \in Callers :
    /\ Completed(c) /\ n[c] % lbBlockByteSize # 0 /\ n[c] >= sbCutoff
    /\ caches[k].lbCount \in 1..(lbByteSize - 1)

C6_Done ==
  \A c \in Callers :
    (Completed(c) /\ b[c].len > maxBytesToFillViaCache) =>
      /\ srcN[c] = 1
      /\ ret[c] = srcRes[c]
      /\ Len(b[c].data) <= 1 /\ RunsLen(b[c].data) = ret[c].n
      /\ cachePtr[c] = NoCache
C6_Step ==
  \A c \in Callers :
    /\ (pc'[c] # pc[c] /\ n'[c] > maxBytesToFillViaCache) =>
          /\ UNCHANGED <<caches, pool>>
          /\ pc'[c] \in {"entry", "idle"}
    /\ (pc[c] = "entry" /\ pc'[c] # pc[c] /\ n[c] = maxBytesToFillViaCache) =>
          /\ pc'[c] = "route"
          /\ cachePtr'[c] \in (DOMAIN caches') \ pool'
          /\ srcCalls' = srcCalls

C7_Done ==
  \A c \in Callers :
    (Completed(c) /\ b[c].len = 0) =>
      /\ ret[c] = [n |-> 0, err |-> FALSE]
      /\ srcN[c] = 0
      /\ cachePtr[c] = NoCache
C7_Step ==
  \A c \in Callers :
    (pc'[c] # pc[c] /\ n'[c] = 0) =>
      /\ UNCHANGED <<caches, pool, srcCalls, delivered>>
      /\ pc'[c] \in {"entry", "idle"}

\* C7: a Read of a zero-length buffer returns (0, nil) at once: it calls no
\* source, acquires no cache, and its steps leave pool and caches unchanged.
C7_ZeroLength == []C7_Done /\ [][C7_Step]_vars

\* C7 witness: a zero-length Read returned while the pool held a used cache
C7_Witness ==
  \E c \in Callers, k \in pool :
    Completed(c) /\ b[c].len = 0 /\ hist[k].refills > 0

\* C8: whatever its length and whatever Reads came before, a Read returns
\* (len(b), nil) and has overwritten every position of b with a byte of the
\* secure source (the source not failing).
C8_FillsWholeBuffer ==
  \A c \in Callers :
    Completed(c) =>
      /\ ret[c] = [n |-> b[c].len, err |-> FALSE]
      /\ RunsLen(b[c].data) = b[c].len
      /\ \A i \in 1..Len(b[c].data) : b[c].data[i].src # NoSrc

\* C8 witness: a Read of the large-buffer range returned after the buffer
\* had been used up and refilled
C8_Witness ==
  \E c \in Callers, k \in live :
    Completed(c) /\ b[c].len >= sbCutoff /\ hist[k].refills >= 2

\* the number of Reads of the claim: C / threshold
SeqLen == lbByteSize \div maxBytesToFillViaCache
CeilDiv(x, y) == (x + y - 1) \div y

\* C9: from a new cache, for every size 1..512, the first 8 Reads of that
\* size that the cache serves refill it at most ceil(8 * size / 4096) times.
C9_RefillBound ==
  \A k \in live, len \in workload.sizes :
    (workload.sizes = {len} /\ len \in 1..maxBytesToFillViaCache
       /\ hist[k].served <= SeqLen) =>
      hist[k].refills <= CeilDiv(SeqLen * len, lbByteSize)

\* C9 witness: eight Reads of 512 bytes served by one cache with one refill
C9_Witness ==
  \E k \in pool :
    /\ workload.sizes = {maxBytesToFillViaCache}
    /\ hist[k].served = SeqLen /\ hist[k].refills = 1 /\ caches[k].lbCount = 0

C10_Held == \A k \in live \ pool : \E c \in Callers : Holds(c, k)
C10_Acquire ==
  \A c \in Callers :
    (cachePtr'[c] # cachePtr[c] /\ cachePtr'[c] # NoCache) =>
       pc[c] = "entry" /\ cachePtr[c] = NoCache
C10_Released == \A k \in CacheIds : (k \in live /\ k \notin pool) ~> (k \in pool)

\* C10: a Read acquires a cache only at its Get, holding none; every cache
\* out of the pool is held by a Read in progress (so none is out when no
\* Read is in progress); and every cache acquired is eventually back in the pool.
C10_AcquireRelease == []C10_Held /\ [][C10_Acquire]_vars /\ C10_Released

\* C10 witness: two Reads have run, none is in progress, and the pool holds
\* the cache they used
C10_Witness ==
  /\ \A c \in Callers : pc[c] = "idle"
  /\ \E k \in pool : hist[k].served >= 2

C11_CanStep == \A c \in Callers : pc[c] # "idle" => ENABLED Advance(c)
C11_Returns == \A c \in Callers : (pc[c] # "idle") ~> (pc[c] = "idle")

\* C11: a Read in progress always has a step it can take, whatever caches
\* the other callers hold (Get constructs a cache when it hands out none),
\* and under fair scheduling every Read that was started returns.
C11_NeverBlocks == []C11_CanStep /\ C11_Returns

\* C11 witness: a Read is at its Get while the pool is empty and every cache
\* in existence is held by another caller
C11_Witness ==
  \E c \in Callers :
    /\ pc[c] = "entry" /\ n[c] \in 1..maxBytesToFillViaCache
    /\ pool = {} /\ live # {}

\* the alphabet of the claim, written out: 'A'..'Z' then '2'..'7' as codes
Alphabet32 == <<65, 66, 67, 68, 69, 70, 71, 72, 73, 74, 75, 76, 77, 78, 79, 80,
                81, 82, 83, 84, 85, 86, 87, 88, 89, 90, 50, 51, 52, 53, 54, 55>>

\* every byte value maps to the symbol of its value mod 32, so each of the 32
\* symbols is the image of exactly 256 / 32 = 8 byte values
TableUniform ==
  /\ Len(base32_256) = 256
  /\ \A v \in 0..255 : base32_256[v + 1] = Alphabet32[(v % 32) + 1]
  /\ \A s \in 1..32 :
       Cardinality({v \in 0..255 : base32_256[v + 1] = Alphabet32[s]}) = 8

\* C12: a completed Text returns exactly 26 characters, each from the 32
\* symbols A-Z and 2-7, character i being the symbol at index (byte i mod 32)
\* of the alphabet for the i-th byte Read delivered; the 256-entry table maps
\* exactly 8 byte values to each symbol, so uniform bytes give uniform symbols.
C12_TextIsBase32 ==
  \A c \in Callers :
    outer[c].tpc = "done" =>
      /\ Len(outer[c].str) = 26
      /\ \A j \in 1..26 :
           /\ \E s \in 1..32 : outer[c].str[j] = Alphabet32[s]
           /\ outer[c].str[j] = Alphabet32[(outer[c].vals[j] % 32) + 1]
      /\ b[c].len = 26 /\ RunsLen(b[c].data) = 26
      /\ \A j \in 1..26 : RunAt(b[c].data, j - 1) # NoSrc
      /\ TableUniform

\* a Text has returned whose bytes differ and cover both letters and digits
C12_Witness ==
  \E c \in Callers :
    /\ outer[c].tpc = "done"
    /\ \E j \in 1..26 : outer[c].str[j] \in 50..55
    /\ \E j \in 1..26 : outer[c].str[j] \in 65..90
    /\ \E j \in 1..26 : outer[c].vals[j] >= 32

\* reader.Read has returned to a caller of the package (not to Text)
ReaderDone(c) == outer[c].rpc = "done" /\ outer[c].tpc = "none"

\* the results of reader.Read are the results of the Read it called, on the
\* caller's buffer
C13_SameResults ==
  \A c \in Callers :
    ReaderDone(c) =>
      /\ Completed(c)
      /\ outer[c].rret = ret[c]
      /\ b[c].len = outer[c].rlen

\* reader.Read's own steps: its call of Read is Read's entry with the same
\* buffer, every step in between is a step of Read, and its call and return
\* touch neither the caches, the pool, the caller's buffer nor the source
C13_SameSteps ==
  \A c \in Callers :
    /\ (outer[c].rpc = "call" /\ outer'[c].rpc = "wait") =>
         /\ ReadEntry(c, outer[c].rlen)
         /\ b'[c] = EmptyBuf(outer[c].rlen)
    /\ (outer[c].rpc = "wait" /\ pc'[c] # pc[c]) => Advance(c)
    /\ (outer'[c] # outer[c] /\ outer'[c].rpc # "wait") =>
         UNCHANGED <<caches, pool, pc, n, cachePtr, b, ret, srcCalls, srcN,
                     srcRes, delivered, hist>>

\* C13: Reader.Read(b) is Read(b): it returns the (n, err) of the Read it
\* runs, that Read writes into the same b, and reader.Read itself changes
\* neither the pool nor a cache nor b nor the source's output.
C13_ReaderIsRead == []C13_SameResults /\ [][C13_SameSteps]_vars

\* a Reader.Read served from a cache has returned its n bytes
C13_Witness ==
  \E c \in Callers :
    /\ ReaderDone(c)
    /\ outer[c].rret.n \in 1..maxBytesToFillViaCache
    /\ RunsLen(b[c].data) = outer[c].rret.n
    /\ pool # {}

\* the step of Read that decreases the count of the buffer that served it
DecStep(c) == pc[c] \in {"sbDec", "lbDec"} /\ pc'[c] = "put"
\* the count of the buffer serving c's Read, in a cache record
ServingCount(c, cch) == IF n[c] < sbCutoff THEN cch.sbCount ELSE cch.lbCount
\* the decrease of the serving count over the step
Decrease(c) ==
  ServingCount(c, caches[cachePtr[c]]) - ServingCount(c, caches'[cachePtr[c]])

\* C14 as stated: every cached Read of n bytes decreases the count of the
\* buffer that served it by ceil(n / 8) * 8, which is at least n and at most
\* the bytes available, so the count stays at or above 0.
C14_Original ==
  [][\A c \in Callers :
       DecStep(c) =>
         /\ n[c] \in 1..maxBytesToFillViaCache
         /\ Decrease(c) = CeilDiv(n[c], lbBlockByteSize) * lbBlockByteSize
         /\ Decrease(c) >= n[c]
         /\ Decrease(c) <= ServingCount(c, caches[cachePtr[c]])
         /\ ServingCount(c, caches'[cachePtr[c]]) >= 0]_vars

\* C14 amended: a Read of 32 <= n <= 512 bytes decreases lbCount by
\* ceil(n / 8) * 8, at least n, at most n + 7 and at most the bytes available;
\* a Read of 1 <= n < 32 bytes decreases sbCount by exactly n, at most the
\* bytes available; neither count goes below 0.
C14_ConsumedPerBuffer ==
  [][\A c \in Callers :
       DecStep(c) =>
         /\ n[c] \in 1..maxBytesToFillViaCache
         /\ Decrease(c) = IF n[c] < sbCutoff THEN n[c]
                          ELSE CeilDiv(n[c], lbBlockByteSize) * lbBlockByteSize
         /\ Decrease(c) >= n[c]
         /\ Decrease(c) - n[c] <= lbBlockByteSize - 1
         /\ Decrease(c) <= ServingCount(c, caches[cachePtr[c]])
         /\ ServingCount(c, caches'[cachePtr[c]]) >= 0]_vars

\* C14 witness: a Read of a size that is not a multiple of 8 has decreased a
\* count, on a cache whose small buffer has served 7 bytes in all and whose
\* large buffer is partly consumed
C14_Witness ==
  \E c \in Callers :
    /\ pc[c] = "put"
    /\ n[c] % lbBlockByteSize # 0
    /\ caches[cachePtr[c]].sbCount = sbByteSize - 7
    /\ caches[cachePtr[c]].lbCount \in 1..(lbByteSize - 1)

\* the buffer serving c's Read, in a cache record, and its size
ServingBuf(c, cch) == IF n[c] < sbCutoff THEN cch.sb ELSE cch.lb
ServingSize(c) == IF n[c] < sbCutoff THEN sbByteSize ELSE lbByteSize
CopyPCs == {"sbCopy", "lbCopy"}

\* the refill decision of a cached Read, and every other step of it
C15_Decision ==
  \A c \in Callers :
    /\ (pc[c] = "route" /\ pc'[c] # "route") =>
         IF n[c] > ServingCount(c, caches[cachePtr[c]])
         THEN /\ srcCalls' = srcCalls + 1
              /\ srcN'[c] = 1
              /\ ServingBuf(c, caches'[cachePtr[c]]) =
                   <<[src |-> ThisRead(c), len |-> ServingSize(c)]>>
              /\ pc'[c] \in {"sbSet", "lbSet"}
         ELSE /\ srcCalls' = srcCalls
              /\ srcN'[c] = 0
              /\ caches' = caches
              /\ pc'[c] \in CopyPCs
    /\ (pc[c] \in HeldPCs \ {"route"} /\ pc'[c] # pc[c]) =>
         /\ srcCalls' = srcCalls
         /\ \A k \in live :
              caches'[k].lb = caches[k].lb /\ caches'[k].sb = caches[k].sb

\* a Read that refilled copies from a buffer wholly written by its one call,
\* with the count at the buffer's size
C15_FullBeforeCopy ==
  \A c \in Callers :
    /\ srcN[c] <= 1
    /\ (pc[c] \in CopyPCs /\ srcN[c] = 1) =>
         /\ ServingCount(c, caches[cachePtr[c]]) = ServingSize(c)
         /\ ServingBuf(c, caches[cachePtr[c]]) =
              <<[src |-> ThisRead(c), len |-> ServingSize(c)]>>

\* C15: a cached Read calls the secure source exactly when n exceeds the
\* count of the buffer serving it; then it makes one call, which overwrites
\* the whole buffer, and the count is the buffer's size before the copy;
\* otherwise it makes no call and leaves the buffers as they are.
C15_RefillIffShort == []C15_FullBeforeCopy /\ [][C15_Decision]_vars

\* C15 witness: both outcomes on one cache: a Read that found exactly the
\* bytes it needed (n = count) has copied without a call, after a Read that
\* refilled
C15_Witness ==
  \E c \in Callers :
    /\ pc[c] = "lbDec" /\ srcN[c] = 0
    /\ n[c] = caches[cachePtr[c]].lbCount
    /\ hist[cachePtr[c]].refills = 1

\* the positions copied out of the buffer serving c since its last refill
ServingTaken(c, h) == IF n[c] < sbCutoff THEN h.sbTaken ELSE h.lbTaken

\* C16: the copy of a cached Read of n bytes writes to the caller's buffer
\* exactly the buffer bytes at positions [C - a, C - a + n), C the size of
\* the serving buffer and a its count after the refill decision; the range
\* ends inside the buffer and starts after every position copied out since
\* the last refill.
C16_CopyRange ==
  [][\A c \in Callers :
       (pc[c] \in CopyPCs /\ pc'[c] # pc[c]) =>
         LET C == ServingSize(c)
             a == ServingCount(c, caches[cachePtr[c]])
             buf == ServingBuf(c, caches[cachePtr[c]])
         IN /\ pc'[c] \in {"sbDec", "lbDec"}
            /\ Len(buf) = 1 /\ buf[1].len = C
            /\ b'[c].data = <<[src |-> buf[1].src, lo |-> C - a, hi |-> C - a + n[c]]>>
            /\ 0 <= C - a
            /\ C - a + n[c] <= C
            /\ \A i \in 1..Len(ServingTaken(c, hist[cachePtr[c]])) :
                 ServingTaken(c, hist[cachePtr[c]])[i].hi <= C - a]_vars

\* C16 witness: a Read has copied a range that ends at the last position of
\* the large buffer and starts after positions taken by earlier Reads
C16_Witness ==
  \E c \in Callers :
    /\ pc[c] = "lbDec"
    /\ b[c].data # <<>>
    /\ b[c].data[1].hi = lbByteSize
    /\ b[c].data[1].lo > 0
    /\ Len(hist[cachePtr[c]].lbTaken) > 1

\* exclusive ownership, no byte delivered twice, and every completed Read
\* filled with bytes of the source
C17_Safe ==
  /\ C3_Owned
  /\ C2_NoTagTwice
  /\ \A c \in Callers :
       Completed(c) =>
         /\ ret[c] = [n |-> b[c].len, err |-> FALSE]
         /\ RunsLen(b[c].data) = b[c].len
         /\ \A i \in 1..Len(b[c].data) : b[c].data[i].src # NoSrc

\* a step in which the pool drops a cache: the cache was pooled and held by
\* no Read, and the step changes no other cache, no Read in progress and
\* nothing delivered
C17_DiscardStep ==
  \A k \in live :
    k \notin DOMAIN caches' =>
      /\ k \in pool
      /\ \A c \in Callers : ~Holds(c, k)
      /\ \A j \in live \ {k} : j \in DOMAIN caches' /\ caches'[j] = caches[j]
      /\ UNCHANGED <<pc, n, cachePtr, b, ret, delivered, srcCalls>>
      /\ C17_Safe'

\* C17: the pool may drop a pooled cache at any moment: the drop touches
\* nothing but that cache, and in every state, before and after any number
\* of drops, each cache has one holder at most, no byte has been delivered
\* twice and every completed Read is filled with bytes of the source.
C17_DiscardIsSafe == []C17_Safe /\ [][C17_DiscardStep]_vars

\* C17 witness: a caller's second Read has completed on a cache that was
\* constructed for it under the id of a cache that served earlier and was
\* dropped
C17_Witness ==
  \E c \in Callers :
    /\ Completed(c) /\ rdId[c] = 2
    /\ 1 \in live /\ hist[1].served = 1
    /\ caches[1].lb = <<[src |-> <<c, 2>>, len |-> lbByteSize]>>
    /\ RunsLen(b[c].data) = b[c].len /\ b[c].len >= sbCutoff
    /\ \E d \in delivered :
         d.rd = <<c, 1>> /\ d.src # NoSrc /\ d.hi - d.lo <= maxBytesToFillViaCache

\* the Reads between their Get and their Put
Holders == {c \in Callers : pc[c] \in HeldPCs}

\* C18: on a pool that constructs a cache only when it holds none and drops
\* none, no cache goes away and, whenever one is constructed, every cache in
\* existence is held by a Read of its own between Get and Put: the number of
\* caches never exceeds the largest number of Reads that were between Get
\* and Put at once.
C18_BoundedByConcurrency ==
  /\ [](Cardinality(live) <= NumCallers)
  /\ [][/\ live \subseteq DOMAIN caches'
        /\ DOMAIN caches' # live =>
             /\ Cardinality(DOMAIN caches') = Cardinality(live) + 1
             /\ Cardinality(DOMAIN caches') =
                  Cardinality({c \in Callers : pc'[c] \in HeldPCs})
             /\ \A c1 \in Callers, c2 \in Callers :
                  (c1 # c2 /\ pc'[c1] \in HeldPCs /\ pc'[c2] \in HeldPCs) =>
                    cachePtr'[c1] # cachePtr'[c2]]_vars

\* C18 witness: a second cache exists, constructed while the first was
\* checked out, and both are held
C18_Witness ==
  /\ Cardinality(live) = 2
  /\ Cardinality(Holders) = 2
  /\ pool = {}

SbPCs == {"sbSet", "sbCopy", "sbDec"}
LbPCs == {"lbSet", "lbCopy", "lbDec"}

\* a step of the Read of c while it holds a cache
HeldStep(c) == pc[c] \in HeldPCs /\ pc'[c] # pc[c]

\* a Read of 1 <= n < 32 bytes: only the small buffer's path, bytes out of
\* sb, sbCount down by n, lb and lbCount as they were
C19_SmallOnly(c) ==
  LET k == cachePtr[c] IN
    /\ pc'[c] \notin LbPCs
    /\ caches'[k].lb = caches[k].lb
    /\ caches'[k].lbCount = caches[k].lbCount
    /\ hist'[k].lbTaken = hist[k].lbTaken
    /\ caches'[k].sbCount \in 0..sbByteSize
    /\ pc[c] = "sbCopy" =>
         /\ Len(b'[c].data) = 1
         /\ b'[c].data[1].src = caches[k].sb[1].src
         /\ Len(hist'[k].sbTaken) = Len(hist[k].sbTaken) + 1
    /\ pc[c] = "sbDec" => caches'[k].sbCount = caches[k].sbCount - n[c]
    /\ pc[c] # "sbDec" => caches'[k].sbCount \in {caches[k].sbCount, sbByteSize}

\* a Read of 32 <= n <= 512 bytes: only the large buffer's path, bytes out
\* of lb, lbCount down by n rounded up to a multiple of 8, sb and sbCount as
\* they were
C19_LargeOnly(c) ==
  LET k == cachePtr[c] IN
    /\ pc'[c] \notin SbPCs
    /\ caches'[k].sb = caches[k].sb
    /\ caches'[k].sbCount = caches[k].sbCount
    /\ hist'[k].sbTaken = hist[k].sbTaken
    /\ caches'[k].lbCount \in 0..lbByteSize
    /\ caches'[k].lbCount % lbBlockByteSize = 0
    /\ pc[c] = "lbCopy" =>
         /\ Len(b'[c].data) = 1
         /\ b'[c].data[1].src = caches[k].lb[1].src
         /\ Len(hist'[k].lbTaken) = Len(hist[k].lbTaken) + 1
    /\ pc[c] = "lbDec" =>
         caches'[k].lbCount =
           caches[k].lbCount - CeilDiv(n[c], lbBlockByteSize) * lbBlockByteSize
    /\ pc[c] # "lbDec" => caches'[k].lbCount \in {caches[k].lbCount, lbByteSize}

\* C19: the two buffers of a cache are routed by size and independent: every
\* step of a Read of 1 <= n < 32 bytes uses the small buffer only, takes
\* exactly n bytes of it, keeps sbCount in 0..1024 and leaves lb and lbCount
\* alone; every step of a Read of 32 <= n <= 512 bytes uses the large buffer
\* only, takes n rounded up to a multiple of 8, keeps lbCount in 0..4096 and
\* a multiple of 8, and leaves sb and sbCount alone.
C19_RoutedBySize ==
  [][\A c \in Callers :
       HeldStep(c) =>
         /\ n[c] \in 1..maxBytesToFillViaCache
         /\ IF n[c] < sbCutoff THEN C19_SmallOnly(c) ELSE C19_LargeOnly(c)]_vars

\* C19 witness: a Read of the large range has taken its bytes from a cache
\* whose small buffer is partly consumed by earlier Reads
C19_Witness ==
  \E c \in Callers :
    /\ pc[c] = "put" /\ n[c] >= sbCutoff
    /\ caches[cachePtr[c]].sbCount \in 1..(sbByteSize - 1)
    /\ caches[cachePtr[c]].lbCount \in 1..(lbByteSize - 1)
    /\ Len(hist[cachePtr[c]].sbTaken) >= 1

\* the tail [C - count, C) of a buffer holds no byte that the source did not
\* write
TailWritten(buf, C, count) ==
  /\ count \in 0..C
  /\ \A i \in 1..Len(Slice(buf, C, C - count, C)) :
       Slice(buf, C, C - count, C)[i].src # NoSrc

C20_TailsWritten ==
  /\ \A k \in live :
       /\ TailWritten(caches[k].lb, lbByteSize, caches[k].lbCount)
       /\ TailWritten(caches[k].sb, sbByteSize, caches[k].sbCount)
  /\ \A d \in delivered : d.src # NoSrc
  /\ \A c \in Callers :
       pc[c] \in CopyPCs => ServingBuf(c, caches[cachePtr[c]]) # <<>>

\* a cache is constructed with both counts 0, and a Read that finds the
\* buffer serving it never written refills it
C20_NewStartsEmpty ==
  /\ \A k \in DOMAIN caches' :
       k \notin live => caches'[k].lbCount = 0 /\ caches'[k].sbCount = 0
  /\ \A c \in Callers :
       (pc[c] = "route" /\ pc'[c] # "route"
          /\ ServingBuf(c, caches[cachePtr[c]]) = <<>>) =>
         /\ pc'[c] \in {"sbSet", "lbSet"}
         /\ srcCalls' = srcCalls + 1
         /\ ServingBuf(c, caches'[cachePtr[c]]) # <<>>

\* C20: a new cache has both counts at 0; in every state the tail
\* [size - count, size) of each buffer of each cache holds only bytes the
\* secure source wrote, no zero-initialised byte is ever delivered, and the
\* first Read served by a buffer of a new cache refills it before copying.
C20_ZeroBytesNeverDelivered == []C20_TailsWritten /\ [][C20_NewStartsEmpty]_vars

\* C20 witness: the first Read on a new cache is about to copy from the
\* buffer it has just refilled, the cache's other buffer still unwritten
C20_Witness ==
  \E c \in Callers :
    /\ pc[c] = "lbCopy" /\ srcN[c] = 1
    /\ hist[cachePtr[c]].served = 1
    /\ caches[cachePtr[c]].sb = <<>> /\ caches[cachePtr[c]].sbCount = 0
    /\ caches[cachePtr[c]].lbCount = lbByteSize
====
